---- MODULE Spec2Model ----
(***************************************************************************)
(* Model of internal/integration/integration.go: the integration-test      *)
(* harness built by NewTestServer / testServer.  Two threads of control:   *)
(* the test thread (setup, test body, tb.Cleanup callbacks) and the        *)
(* goroutine started at line 177 that serves the router.                   *)
(***************************************************************************)
EXTENDS Naturals, Sequences, FiniteSets

VARIABLES
    pc,            \* position of the test thread
    gpc,           \* position of the serving goroutine (line 177)
    exportPeriod,  \* argument exportPeriod of NewTestServer
    env,           \* capabilities bound in the serverenv.ServerEnv
    db,            \* test database handle: "none", "open", "closed"
    closedBy,      \* who closed the handle: "none", "helper", "harness"
    cleanups,      \* tb.Cleanup callbacks, in registration order
    mux,           \* http.ServeMux entries, in registration order
    srv,           \* server.Server: [state, addr]
    stopCtx,       \* "none", "live", "canceled"
    serveRet,      \* return value of srv.ServeHTTPHandler: "pending", "nil", "err"
    tbErrors,      \* number of tb.Error calls
    lateError,     \* tb.Error was called after the test's cleanups finished
    fatal,         \* tb.Fatal was called
    failedStep,    \* the setup step that returned an error, or "none"
    aaStore,       \* authorized applications held by the memory provider
    sigInfos,      \* SignatureInfo rows
    exportConfigs, \* ExportConfig rows
    client,        \* the prefixRoundTripper of the returned client
    returned,      \* NewTestServer returned (env, enClient, db) to the test
    req,           \* the request last given to RoundTrip
    delegated,     \* the request RoundTrip handed to the underlying transport
    outcome,       \* what the underlying transport returned for it
    shimRet,       \* what RoundTrip returned for it
    nreq           \* number of requests the test body has issued

vars == <<pc, gpc, exportPeriod, env, db, closedBy, cleanups, mux, srv, stopCtx,
          serveRet, tbErrors, lateError, fatal, failedStep, aaStore, sigInfos,
          exportConfigs, client, returned, req, delegated, outcome, shimRet, nreq>>

----------------------------------------------------------------------------
(* Bounds and input sets *)

MaxRequests == 2

Periods == {1, 24}

\* the ephemeral address server.New("") binds, and a foreign host
BoundAddr == "127.0.0.1:41000"
OtherHost == "example.org"

Schemes == {"", "http", "https"}
Hosts == {"", OtherHost}

\* A URL path as its segments; a trailing slash is an empty last segment:
\* "/export/" is <<"export", "">>, "/export/x" is <<"export", "x">>.
Paths == { <<"cleanup-export">>, <<"cleanup-exposure">>, <<"export", "">>,
           <<"export", "x">>, <<"federation-in">>, <<"publish">>,
           <<"publish", "x">>, <<"federation-out">> }

Requests == [Scheme : Schemes, Host : Hosts, Path : Paths]

NoRequest == [Scheme |-> "", Host |-> "", Path |-> <<>>]

NoOutcome == [kind |-> "none", handler |-> "", path |-> <<>>]
ConnFail == [kind |-> "connfail", handler |-> "", path |-> <<>>]
Elsewhere == [kind |-> "elsewhere", handler |-> "", path |-> <<>>]
TlsFail == [kind |-> "tlsfail", handler |-> "", path |-> <<>>]
Response(h, p) == [kind |-> "response", handler |-> h, path |-> p]

----------------------------------------------------------------------------
(* exportDir, line 41 *)
exportDir == "my-bucket"

(* The provider bindings given to serverenv.New, lines 87-93 *)
Bindings == {"authorizedapp", "blobstore", "database", "keymanager", "secretmanager"}

AdapterSteps == {"cleanupExport", "cleanupExposure", "exportServer", "federationIn", "publish"}

(* The capabilities each adapter needs from the environment (section 4.5 of
   the specification; the constructors live outside this file). *)
Required(a) ==
    CASE a = "cleanupExport" -> {"database", "blobstore"}
      [] a = "cleanupExposure" -> {"database"}
      [] a = "export" -> {"database", "blobstore"}
      [] a = "federationIn" -> {"database"}
      [] a = "publish" -> {"database", "authorizedapp"}

(* What a constructor with an error result may return: an error whenever a
   required capability is absent, and possibly an error otherwise. *)
ConstructorResults(a, e) ==
    IF Required(a) \subseteq e THEN {"ok", "err"} ELSE {"err"}

----------------------------------------------------------------------------
(* tb.Fatal: the step's error ends the test function; cleanups run next. *)
Fatal(step) ==
    /\ failedStep' = step
    /\ fatal' = TRUE
    /\ pc' = "cleanup"

TypeOK ==
    /\ pc \in {"NewMemoryProvider", "NewMemory", "NewTestDatabase", "NewNoopKeys",
               "NewNoopSecrets", "NewEnv", "cleanupExport", "cleanupExposure",
               "exportServer", "federationIn", "publish", "serverNew",
               "registerStop", "goServe", "testClient", "startAuthorizedApp",
               "AddSignatureInfo", "AddExportConfig", "return", "testBody",
               "awaiting", "cleanup", "finished"}
    /\ gpc \in {"idle", "launched", "serving", "returned", "done"}
    /\ db \in {"none", "open", "closed"}
    /\ stopCtx \in {"none", "live", "canceled"}
    /\ serveRet \in {"pending", "nil", "err"}
    /\ tbErrors \in 0..1
    /\ nreq \in 0..(MaxRequests + 1)

Init ==
    /\ pc = "NewMemoryProvider"
    /\ gpc = "idle"
    /\ exportPeriod \in Periods
    /\ env = {}
    /\ db = "none"
    /\ closedBy = "none"
    /\ cleanups = <<>>
    /\ mux = <<>>
    /\ srv = [state |-> "none", addr |-> ""]
    /\ stopCtx = "none"
    /\ serveRet = "pending"
    /\ tbErrors = 0
    /\ lateError = FALSE
    /\ fatal = FALSE
    /\ failedStep = "none"
    /\ aaStore = <<>>
    /\ sigInfos = <<>>
    /\ exportConfigs = <<>>
    /\ client = [built |-> FALSE, addr |-> ""]
    /\ returned = FALSE
    /\ req = NoRequest
    /\ delegated = NoRequest
    /\ outcome = NoOutcome
    /\ shimRet = NoOutcome
    /\ nreq = 0

----------------------------------------------------------------------------
(* Variable groups *)
goVars == <<gpc, serveRet, tbErrors, lateError>>
storeVars == <<aaStore, sigInfos, exportConfigs>>
reqVars == <<req, delegated, outcome, shimRet, nreq>>
topoVars == <<env, mux, srv, stopCtx, client>>
dbVars == <<db, closedBy, cleanups>>

Goto(step) ==
    /\ pc' = step
    /\ UNCHANGED <<fatal, failedStep>>

----------------------------------------------------------------------------
(* testServer, lines 60-95: providers and environment *)

\* authorizedapp.NewMemoryProvider, lines 65-68
NewMemoryProvider ==
    /\ pc = "NewMemoryProvider"
    /\ \/ Goto("NewMemory")
       \/ Fatal("NewMemoryProvider")
    /\ UNCHANGED <<exportPeriod, topoVars, dbVars, goVars, storeVars, reqVars, returned>>

\* storage.NewMemory, lines 70-73
NewMemory ==
    /\ pc = "NewMemory"
    /\ \/ Goto("NewTestDatabase")
       \/ Fatal("NewMemory")
    /\ UNCHANGED <<exportPeriod, topoVars, dbVars, goVars, storeVars, reqVars, returned>>

\* database.NewTestDatabase(tb), line 75: opens the handle and registers the
\* helper's own cleanup, which closes it (comment at lines 94-95), or fails
\* the test itself.
NewTestDatabase ==
    /\ pc = "NewTestDatabase"
    /\ \/ /\ Goto("NewNoopKeys")
          /\ db' = "open"
          /\ cleanups' = Append(cleanups, "dbClose")
       \/ /\ Fatal("NewTestDatabase")
          /\ UNCHANGED <<db, cleanups>>
    /\ UNCHANGED <<exportPeriod, topoVars, closedBy, goVars, storeVars, reqVars, returned>>

\* keys.NewNoop, lines 77-80
NewNoopKeys ==
    /\ pc = "NewNoopKeys"
    /\ \/ Goto("NewNoopSecrets")
       \/ Fatal("NewNoopKeys")
    /\ UNCHANGED <<exportPeriod, topoVars, dbVars, goVars, storeVars, reqVars, returned>>

\* secrets.NewNoop, lines 82-85
NewNoopSecrets ==
    /\ pc = "NewNoopSecrets"
    /\ \/ Goto("NewEnv")
       \/ Fatal("NewNoopSecrets")
    /\ UNCHANGED <<exportPeriod, topoVars, dbVars, goVars, storeVars, reqVars, returned>>

\* serverenv.New with the five bindings, lines 87-95; env.Cleanup is not called
NewEnv ==
    /\ pc = "NewEnv"
    /\ env' = Bindings
    /\ Goto("cleanupExport")
    /\ UNCHANGED <<exportPeriod, mux, srv, stopCtx, client, dbVars, goVars, storeVars,
                   reqVars, returned>>

----------------------------------------------------------------------------
(* The router: http.ServeMux and http.StripPrefix, lines 97-165 *)

Entry(pattern, handler, strip) ==
    [pattern |-> pattern, handler |-> handler, strip |-> strip]

\* http.StripPrefix(prefix, h): the path handed to h, lines 139
StripPrefix(prefix, p) ==
    IF Len(p) >= Len(prefix) /\ SubSeq(p, 1, Len(prefix)) = prefix
    THEN SubSeq(p, Len(prefix) + 1, Len(p))
    ELSE p

\* A pattern ending in "/" names a subtree, any other pattern one exact path.
Matches(pattern, p) ==
    IF pattern[Len(pattern)] = ""
    THEN /\ Len(p) >= Len(pattern)
         /\ SubSeq(p, 1, Len(pattern) - 1) = SubSeq(pattern, 1, Len(pattern) - 1)
    ELSE p = pattern

\* ServeMux.ServeHTTP: the longest matching pattern wins; no match is a 404.
Dispatch(m, p) ==
    LET hits == {i \in 1..Len(m) : Matches(m[i].pattern, p)} IN
    IF hits = {} THEN Response("notfound", p)
    ELSE LET i == CHOOSE k \in hits :
                      \A j \in hits : Len(m[k].pattern) >= Len(m[j].pattern)
         IN Response(m[i].handler, StripPrefix(m[i].strip, p))

\* mux.Handle("/cleanup-export", cleanupExportHandler), line 109
CleanupExportEntry == Entry(<<"cleanup-export">>, "cleanupExport", <<>>)

\* mux.Handle("/cleanup-exposure", cleanupExposureHandler), line 121
CleanupExposureEntry == Entry(<<"cleanup-exposure">>, "cleanupExposure", <<>>)

ExportEntryUnstripped == Entry(<<"export", "">>, "export", <<>>)

\* mux.Handle("/export/", http.StripPrefix("/export", ...)), line 139
ExportEntry == Entry(<<"export", "">>, "export", <<"export">>)

\* mux.Handle("/federation-in", federationin.NewHandler(...)), line 147
FederationInEntry == Entry(<<"federation-in">>, "federationIn", <<>>)

\* mux.Handle("/publish", publishHandler), line 165
PublishEntry == Entry(<<"publish">>, "publish", <<>>)

\* The err result dropped instead of checked: the handler is mounted anyway
MountUnchecked(step, adapter, entry, next) ==
    /\ pc = step
    /\ \E r \in ConstructorResults(adapter, env) :
          /\ mux' = Append(mux, entry)
          /\ failedStep' = IF r = "err" THEN step ELSE failedStep
          /\ pc' = next
          /\ UNCHANGED fatal
    /\ UNCHANGED <<exportPeriod, env, srv, stopCtx, client, dbVars, goVars, storeVars,
                   reqVars, returned>>

\* An adapter whose constructor returns (handler, error): checked, then mounted
Mount(step, adapter, entry, next) ==
    /\ pc = step
    /\ \E r \in ConstructorResults(adapter, env) :
          \/ /\ r = "ok"
             /\ mux' = Append(mux, entry)
             /\ Goto(next)
          \/ /\ r = "err"
             /\ Fatal(step)
             /\ UNCHANGED mux
    /\ UNCHANGED <<exportPeriod, env, srv, stopCtx, client, dbVars, goVars, storeVars,
                   reqVars, returned>>

\* cleanup.NewExportHandler, lines 99-109
cleanupExport ==
    Mount("cleanupExport", "cleanupExport", CleanupExportEntry, "cleanupExposure")

\* cleanup.NewExposureHandler, lines 111-121
cleanupExposure ==
    Mount("cleanupExposure", "cleanupExposure", CleanupExposureEntry, "exportServer")

exportServerUnstripped ==
    Mount("exportServer", "export", ExportEntryUnstripped, "federationIn")

\* export.NewServer, lines 123-139
exportServer ==
    Mount("exportServer", "export", ExportEntry, "federationIn")

\* federationin.NewHandler returns the handler alone, so there is no error to
\* check: it is mounted whatever the environment holds.  Lines 141-147.
federationIn ==
    /\ pc = "federationIn"
    /\ mux' = Append(mux, FederationInEntry)
    /\ Goto("publish")
    /\ UNCHANGED <<exportPeriod, env, srv, stopCtx, client, dbVars, goVars, storeVars,
                   reqVars, returned>>

\* publish.NewHandler, lines 152-165.  Federation out is not mounted (149-150).
publish ==
    Mount("publish", "publish", PublishEntry, "serverNew")

----------------------------------------------------------------------------
(* testServer, lines 167-186: listener, goroutine, client *)

\* What server.New("") leaves behind when it succeeds: the listener is bound
\* to its ephemeral address before New returns (section 4.3).
Bound == [state |-> "bound", addr |-> BoundAddr]

\* srv, err := server.New(""), lines 167-170
serverNew ==
    /\ pc = "serverNew"
    /\ \/ /\ srv' = Bound
          /\ Goto("registerStop")
       \/ /\ Fatal("serverNew")
          /\ UNCHANGED srv
    /\ UNCHANGED <<exportPeriod, env, mux, stopCtx, client, dbVars, goVars, storeVars,
                   reqVars, returned>>

\* context.WithCancel without tb.Cleanup(stop)
registerStopForgotten ==
    /\ pc = "registerStop"
    /\ stopCtx' = "live"
    /\ Goto("goServe")
    /\ UNCHANGED <<exportPeriod, env, mux, srv, client, dbVars, goVars, storeVars,
                   reqVars, returned>>

\* stopCtx, stop := context.WithCancel(ctx); tb.Cleanup(stop), lines 172-174
registerStop ==
    /\ pc = "registerStop"
    /\ stopCtx' = "live"
    /\ cleanups' = Append(cleanups, "stop")
    /\ Goto("goServe")
    /\ UNCHANGED <<exportPeriod, env, mux, srv, client, db, closedBy, goVars, storeVars,
                   reqVars, returned>>

\* go func() { ... }(), line 177: the goroutine exists, nothing has run in it
goServe ==
    /\ pc = "goServe"
    /\ gpc' = "launched"
    /\ Goto("testClient")
    /\ UNCHANGED <<exportPeriod, topoVars, dbVars, serveRet, tbErrors, lateError,
                   storeVars, reqVars, returned>>

\* A client built without the listener's address
testClientNoAddr ==
    /\ pc = "testClient"
    /\ client' = [built |-> TRUE, addr |-> ""]
    /\ Goto("startAuthorizedApp")
    /\ UNCHANGED <<exportPeriod, env, mux, srv, stopCtx, dbVars, goVars, storeVars,
                   reqVars, returned>>

\* testClient(tb, srv), lines 184-186 and 206-216: addr is srv.Addr(), read
\* once; testServer then returns to NewTestServer (lines 46-48)
testClient ==
    /\ pc = "testClient"
    /\ client' = [built |-> TRUE, addr |-> srv.addr]
    /\ Goto("startAuthorizedApp")
    /\ UNCHANGED <<exportPeriod, env, mux, srv, stopCtx, dbVars, goVars, storeVars,
                   reqVars, returned>>

----------------------------------------------------------------------------
(* NewTestServer, lines 50-56: fixtures *)

\* The record of lines 220-231
AuthorizedApp ==
    [AppPackageName |-> "com.example.app",
     AllowedRegions |-> {"TEST"},
     AllowedHealthAuthorityIDs |-> {12345},
     BypassHealthAuthorityVerification |-> TRUE]

\* The record of lines 237-241; the store numbers its rows
SignatureInfo(id) ==
    [ID |-> id, SigningKey |-> "signer", SigningKeyVersion |-> "v1", SigningKeyID |-> "US"]

\* An export configuration that names the signature info rows present
ExportConfigLinked(period, infos) ==
    [BucketName |-> exportDir, Period |-> period, OutputRegion |-> "TEST",
     SignatureInfoIDs |-> [i \in 1..Len(infos) |-> infos[i].ID]]

\* The record of lines 247-254: SignatureInfoIDs is []int64{}
ExportConfig(period, infos) ==
    [BucketName |-> exportDir, Period |-> period, OutputRegion |-> "TEST",
     SignatureInfoIDs |-> <<>>]

\* startAuthorizedApp without the aa.Add call
startAuthorizedAppSkipped ==
    /\ pc = "startAuthorizedApp"
    /\ Goto("AddSignatureInfo")
    /\ UNCHANGED <<exportPeriod, topoVars, dbVars, goVars, storeVars, reqVars, returned>>

\* startAuthorizedApp, lines 51 and 218-234
startAuthorizedApp ==
    /\ pc = "startAuthorizedApp"
    /\ \/ /\ aaStore' = Append(aaStore, AuthorizedApp)
          /\ Goto("AddSignatureInfo")
       \/ /\ Fatal("startAuthorizedApp")
          /\ UNCHANGED aaStore
    /\ UNCHANGED <<exportPeriod, topoVars, dbVars, goVars, sigInfos, exportConfigs,
                   reqVars, returned>>

\* createSignatureInfo, lines 54 and 236-244: AddSignatureInfo
AddSignatureInfo ==
    /\ pc = "AddSignatureInfo"
    /\ \/ /\ sigInfos' = Append(sigInfos, SignatureInfo(Len(sigInfos) + 1))
          /\ Goto("AddExportConfig")
       \/ /\ Fatal("AddSignatureInfo")
          /\ UNCHANGED sigInfos
    /\ UNCHANGED <<exportPeriod, topoVars, dbVars, goVars, aaStore, exportConfigs,
                   reqVars, returned>>

\* createSignatureInfo, lines 246-257: AddExportConfig
AddExportConfig ==
    /\ pc = "AddExportConfig"
    /\ \/ /\ exportConfigs' = Append(exportConfigs, ExportConfig(exportPeriod, sigInfos))
          /\ Goto("return")
       \/ /\ Fatal("AddExportConfig")
          /\ UNCHANGED exportConfigs
    /\ UNCHANGED <<exportPeriod, topoVars, dbVars, goVars, aaStore, sigInfos,
                   reqVars, returned>>

\* return env, enClient, db, line 56: the test body starts
Return ==
    /\ pc = "return"
    /\ returned' = TRUE
    /\ Goto("testBody")
    /\ UNCHANGED <<exportPeriod, topoVars, dbVars, goVars, storeVars, reqVars>>

----------------------------------------------------------------------------
(* The transport shim, lines 189-204, and the test body that uses the client *)

\* The host default applied only inside the scheme default
RoundTripNested(r, addr) ==
    IF r.Scheme = ""
    THEN [r EXCEPT !.Scheme = "http", !.Host = IF r.Host = "" THEN addr ELSE r.Host]
    ELSE r

\* prefixRoundTripper.RoundTrip, lines 195-201: the request handed on
RoundTripRewrite(r, addr) ==
    [r EXCEPT !.Scheme = IF r.Scheme = "" THEN "http" ELSE r.Scheme,
              !.Host = IF r.Host = "" THEN addr ELSE r.Host]

\* return p.rt.RoundTrip(r), line 203: the transport's result, as it is
RoundTripReturn(result) == result

\* The test body calls the client: RoundTrip rewrites the request and the
\* underlying transport connects.  A bound listener queues the connection
\* until the goroutine serves it; no listener refuses it.
IssueRequest ==
    /\ pc = "testBody"
    /\ nreq < MaxRequests
    /\ \E r \in Requests :
          LET d == RoundTripRewrite(r, client.addr) IN
          /\ req' = r
          /\ delegated' = d
          /\ nreq' = nreq + 1
          /\ IF d.Host /= srv.addr
             THEN /\ outcome' = Elsewhere
                  /\ shimRet' = RoundTripReturn(Elsewhere)
                  /\ pc' = "testBody"
             ELSE IF srv.state \in {"bound", "serving"}
             THEN /\ outcome' = NoOutcome
                  /\ shimRet' = NoOutcome
                  /\ pc' = "awaiting"
             ELSE /\ outcome' = ConnFail
                  /\ shimRet' = RoundTripReturn(ConnFail)
                  /\ pc' = "testBody"
    /\ UNCHANGED <<exportPeriod, topoVars, dbVars, goVars, storeVars, returned,
                   fatal, failedStep>>

\* The listener went away under a queued connection
ConnReset ==
    /\ pc = "awaiting"
    /\ srv.state = "closed"
    /\ outcome' = ConnFail
    /\ shimRet' = RoundTripReturn(ConnFail)
    /\ pc' = "testBody"
    /\ UNCHANGED <<exportPeriod, topoVars, dbVars, goVars, storeVars, returned,
                   fatal, failedStep, req, delegated, nreq>>

\* The test function returns; its cleanups run
TestEnd ==
    /\ pc = "testBody"
    /\ pc' = "cleanup"
    /\ UNCHANGED <<exportPeriod, topoVars, dbVars, goVars, storeVars, reqVars, returned,
                   fatal, failedStep>>

----------------------------------------------------------------------------
(* The goroutine of lines 177-181 *)

\* srv.ServeHTTPHandler(stopCtx, mux) starts serving, or finds the context
\* already canceled and returns nil
GoServeEnter ==
    /\ gpc = "launched"
    /\ IF stopCtx = "canceled"
       THEN /\ srv' = [srv EXCEPT !.state = "closed"]
            /\ serveRet' = "nil"
            /\ gpc' = "returned"
       ELSE /\ srv' = [srv EXCEPT !.state = "serving"]
            /\ gpc' = "serving"
            /\ UNCHANGED serveRet
    /\ UNCHANGED <<pc, exportPeriod, env, mux, stopCtx, client, dbVars, tbErrors,
                   lateError, storeVars, reqVars, returned, fatal, failedStep>>

\* The served router answers the queued request
GoHandle ==
    /\ gpc = "serving"
    /\ pc = "awaiting"
    /\ LET result == IF delegated.Scheme = "http"
                     THEN Dispatch(mux, delegated.Path)
                     ELSE TlsFail
       IN /\ outcome' = result
          /\ shimRet' = RoundTripReturn(result)
    /\ pc' = "testBody"
    /\ UNCHANGED <<exportPeriod, topoVars, dbVars, goVars, storeVars, returned,
                   fatal, failedStep, req, delegated, nreq>>

\* Cancellation observed: the listener closes and ServeHTTPHandler returns nil
GoShutdown ==
    /\ gpc = "serving"
    /\ stopCtx = "canceled"
    /\ srv' = [srv EXCEPT !.state = "closed"]
    /\ serveRet' = "nil"
    /\ gpc' = "returned"
    /\ UNCHANGED <<pc, exportPeriod, env, mux, stopCtx, client, dbVars, tbErrors,
                   lateError, storeVars, reqVars, returned, fatal, failedStep>>

\* Serving fails of its own: ServeHTTPHandler returns an error
GoServeFail ==
    /\ gpc = "serving"
    /\ srv' = [srv EXCEPT !.state = "closed"]
    /\ serveRet' = "err"
    /\ gpc' = "returned"
    /\ UNCHANGED <<pc, exportPeriod, env, mux, stopCtx, client, dbVars, tbErrors,
                   lateError, storeVars, reqVars, returned, fatal, failedStep>>

\* tb.Error on every return of ServeHTTPHandler
GoReportAlways ==
    /\ gpc = "returned"
    /\ tbErrors' = tbErrors + 1
    /\ lateError' = (pc = "finished")
    /\ gpc' = "done"
    /\ UNCHANGED <<pc, exportPeriod, topoVars, dbVars, serveRet, storeVars, reqVars,
                   returned, fatal, failedStep>>

\* if err := ...; err != nil { tb.Error(err) }, lines 178-180
GoReport ==
    /\ gpc = "returned"
    /\ IF serveRet = "err"
       THEN /\ tbErrors' = tbErrors + 1
            /\ lateError' = (pc = "finished")
       ELSE UNCHANGED <<tbErrors, lateError>>
    /\ gpc' = "done"
    /\ UNCHANGED <<pc, exportPeriod, topoVars, dbVars, serveRet, storeVars, reqVars,
                   returned, fatal, failedStep>>

----------------------------------------------------------------------------
(* tb.Cleanup callbacks: last registered, first run *)

\* stop(), registered at line 174: cancels stopCtx and returns
StopCleanup ==
    /\ pc = "cleanup"
    /\ cleanups /= <<>>
    /\ cleanups[Len(cleanups)] = "stop"
    /\ stopCtx' = "canceled"
    /\ cleanups' = SubSeq(cleanups, 1, Len(cleanups) - 1)
    /\ UNCHANGED <<pc, exportPeriod, env, mux, srv, client, db, closedBy, goVars,
                   storeVars, reqVars, returned, fatal, failedStep>>

\* The database helper's cleanup, registered inside NewTestDatabase (line 75)
DatabaseCleanup ==
    /\ pc = "cleanup"
    /\ cleanups /= <<>>
    /\ cleanups[Len(cleanups)] = "dbClose"
    /\ db' = "closed"
    /\ closedBy' = "helper"
    /\ cleanups' = SubSeq(cleanups, 1, Len(cleanups) - 1)
    /\ UNCHANGED <<pc, exportPeriod, topoVars, goVars, storeVars, reqVars, returned,
                   fatal, failedStep>>

\* No cleanup is left: the test is complete
CleanupDone ==
    /\ pc = "cleanup"
    /\ cleanups = <<>>
    /\ pc' = "finished"
    /\ UNCHANGED <<exportPeriod, topoVars, dbVars, goVars, storeVars, reqVars, returned,
                   fatal, failedStep>>

----------------------------------------------------------------------------
Setup ==
    \/ NewMemoryProvider \/ NewMemory \/ NewTestDatabase \/ NewNoopKeys
    \/ NewNoopSecrets \/ NewEnv

Assemble ==
    \/ cleanupExport \/ cleanupExposure \/ exportServer \/ federationIn \/ publish

Listen ==
    \/ serverNew \/ registerStop \/ goServe \/ testClient

Seed ==
    \/ startAuthorizedApp \/ AddSignatureInfo \/ AddExportConfig \/ Return

Body ==
    \/ IssueRequest \/ ConnReset \/ TestEnd

Goroutine ==
    \/ GoServeEnter \/ GoHandle \/ GoShutdown \/ GoServeFail \/ GoReport

Teardown ==
    \/ StopCleanup \/ DatabaseCleanup \/ CleanupDone

Next ==
    \/ Setup \/ Assemble \/ Listen \/ Seed \/ Body \/ Goroutine \/ Teardown

Spec == Init /\ [][Next]_vars

\* The Go scheduler runs a runnable goroutine; a genuine serving error is
\* never forced to happen.
GoProgress ==
    \/ GoServeEnter \/ GoHandle \/ GoShutdown \/ GoReport

LiveSpec == Spec /\ WF_vars(GoProgress)

\* Each adapter constructor on its own, with any set of bound capabilities
InitAdapters ==
    /\ pc \in AdapterSteps
    /\ gpc = "idle"
    /\ exportPeriod \in Periods
    /\ env \in SUBSET Bindings
    /\ db = "none"
    /\ closedBy = "none"
    /\ cleanups = <<>>
    /\ mux = <<>>
    /\ srv = [state |-> "none", addr |-> ""]
    /\ stopCtx = "none"
    /\ serveRet = "pending"
    /\ tbErrors = 0
    /\ lateError = FALSE
    /\ fatal = FALSE
    /\ failedStep = "none"
    /\ aaStore = <<>>
    /\ sigInfos = <<>>
    /\ exportConfigs = <<>>
    /\ client = [built |-> FALSE, addr |-> ""]
    /\ returned = FALSE
    /\ req = NoRequest
    /\ delegated = NoRequest
    /\ outcome = NoOutcome
    /\ shimRet = NoOutcome
    /\ nreq = 0

SpecAdapters == InitAdapters /\ [][Assemble]_vars

----------------------------------------------------------------------------
(* Properties *)

\* The statements of NewTestServer and testServer in the order they run
StepOrder ==
    <<"NewMemoryProvider", "NewMemory", "NewTestDatabase", "NewNoopKeys",
      "NewNoopSecrets", "NewEnv", "cleanupExport", "cleanupExposure", "exportServer",
      "federationIn", "publish", "serverNew", "registerStop", "goServe", "testClient",
      "startAuthorizedApp", "AddSignatureInfo", "AddExportConfig", "return">>

Idx(step) == CHOOSE i \in 1..Len(StepOrder) : StepOrder[i] = step

FixtureSteps == {"startAuthorizedApp", "AddSignatureInfo", "AddExportConfig"}

Seeded == Len(aaStore) = 1 /\ Len(sigInfos) = 1 /\ Len(exportConfigs) = 1

SeedingBegun == aaStore /= <<>> \/ sigInfos /= <<>> \/ exportConfigs /= <<>>

PublishedPaths ==
    { <<"cleanup-export">>, <<"cleanup-exposure">>, <<"export", "">>,
      <<"export", "x">>, <<"federation-in">>, <<"publish">> }

AdapterOf(p) ==
    CASE p[1] = "cleanup-export" -> "cleanupExport"
      [] p[1] = "cleanup-exposure" -> "cleanupExposure"
      [] p[1] = "export" -> "export"
      [] p[1] = "federation-in" -> "federationIn"
      [] p[1] = "publish" -> "publish"

\* A request of the test body to a published path of the harness, answered
PublishedRequestDone ==
    /\ nreq > 0
    /\ pc /= "awaiting"
    /\ req.Host = ""
    /\ req.Scheme \in {"", "http"}
    /\ req.Path \in PublishedPaths

AnsweredByAdapter ==
    outcome.kind = "response" /\ outcome.handler = AdapterOf(req.Path)

C3_CancelEndsGoroutineQuietly ==
    /\ [](tbErrors > 0 => serveRet = "err")
    /\ (stopCtx = "canceled") ~> (gpc = "done")

C3_Witness ==
    stopCtx = "canceled" /\ gpc = "done" /\ serveRet = "nil" /\ tbErrors = 0

\* C4 as stated: the harness never closes the database handle; only the
\* helper's cleanup does, and only after stopCtx has been canceled.
C4_HelperClosesAfterCancel ==
    /\ closedBy /= "harness"
    /\ db = "closed" => (closedBy = "helper" /\ stopCtx = "canceled")

\* C4 amended: the harness never closes the database handle; only the
\* helper's cleanup does, and whenever stopCtx exists it has been canceled
\* before the handle is closed (a setup that fails before line 173 has no
\* stopCtx to cancel).
C4_HelperClosesAfterCancelIfAny ==
    /\ closedBy /= "harness"
    /\ db = "closed" => closedBy = "helper"
    /\ (db = "closed" /\ stopCtx /= "none") => stopCtx = "canceled"

C4_Witness ==
    db = "closed" /\ closedBy = "helper" /\ stopCtx = "canceled" /\ returned

\* After the step that failed, nothing a later step does has happened
NoLaterStep ==
    LET f == Idx(failedStep) IN
    /\ db /= "none" => f > Idx("NewTestDatabase")
    /\ env /= {} => f > Idx("NewEnv")
    /\ Len(mux) >= 1 => f > Idx("cleanupExport")
    /\ Len(mux) >= 2 => f > Idx("cleanupExposure")
    /\ Len(mux) >= 3 => f > Idx("exportServer")
    /\ Len(mux) >= 4 => f > Idx("federationIn")
    /\ Len(mux) >= 5 => f > Idx("publish")
    /\ srv.state /= "none" => f > Idx("serverNew")
    /\ stopCtx /= "none" => f > Idx("registerStop")
    /\ gpc /= "idle" => f > Idx("goServe")
    /\ client.built => f > Idx("testClient")
    /\ aaStore /= <<>> => f > Idx("startAuthorizedApp")
    /\ sigInfos /= <<>> => f > Idx("AddSignatureInfo")
    /\ exportConfigs = <<>>
    /\ nreq = 0

Aborted ==
    /\ fatal
    /\ pc \in {"cleanup", "finished"}
    /\ ~returned
    /\ NoLaterStep

C6_FixturesExactlyOnce ==
    /\ [](returned =>
            /\ Len(aaStore) = 1
            /\ Len(sigInfos) = 1
            /\ Len(exportConfigs) = 1
            /\ exportConfigs[1].Period = exportPeriod
            /\ exportConfigs[1].SignatureInfoIDs = <<>>)
    /\ [][returned => UNCHANGED storeVars]_vars

C6_Witness ==
    /\ returned
    /\ pc = "finished"
    /\ exportPeriod = 24
    /\ exportConfigs[1].Period = 24
    /\ sigInfos[1].ID = 1

\* C7: the request RoundTrip hands on has scheme "http" when the original
\* had none and host the listener's address when the original had none, each
\* default on its own, path untouched; a request with both is handed on as
\* it is; and RoundTrip returns what the transport returned.
C7_ShimDefaults ==
    nreq > 0 =>
        /\ delegated.Scheme = (IF req.Scheme = "" THEN "http" ELSE req.Scheme)
        /\ delegated.Host = (IF req.Host = "" THEN BoundAddr ELSE req.Host)
        /\ delegated.Path = req.Path
        /\ (req.Scheme /= "" /\ req.Host /= "") => delegated = req
        /\ shimRet = outcome

C7_Witness ==
    /\ nreq > 0
    /\ req.Scheme = "https"
    /\ req.Host = ""
    /\ delegated.Scheme = "https"
    /\ delegated.Host = BoundAddr
    /\ outcome = TlsFail

\* The router is complete once testServer goes on to create the listener
Assembled == pc = "serverNew" \/ srv.state /= "none"

\* C8: the assembled router has five entries; the four exact paths reach
\* their own adapter with the path as sent, paths under /export/ reach the
\* export adapter without the leading /export, there is no federation-out
\* entry; and the router no longer changes.
C8_RouterTable ==
    /\ [](Assembled =>
            /\ Len(mux) = 5
            /\ \A p \in {<<"cleanup-export">>, <<"cleanup-exposure">>,
                         <<"federation-in">>, <<"publish">>} :
                  Dispatch(mux, p) = Response(AdapterOf(p), p)
            /\ Dispatch(mux, <<"export", "">>) = Response("export", <<"">>)
            /\ Dispatch(mux, <<"export", "x">>) = Response("export", <<"x">>)
            /\ \A i \in 1..Len(mux) :
                  /\ mux[i].handler /= "federationOut"
                  /\ mux[i].strip /= <<>> => mux[i].handler = "export"
            /\ Dispatch(mux, <<"federation-out">>).handler = "notfound")
    /\ [][Assembled => mux' = mux]_vars

C8_Witness ==
    /\ Assembled
    /\ nreq > 0
    /\ req.Path = <<"export", "x">>
    /\ outcome = Response("export", <<"x">>)

C10_StoreClosedAfterGoroutine ==
    /\ db = "closed" => (gpc \in {"idle", "done"} /\ srv.state /= "serving")
    /\ ~lateError

====
